---------------------------- MODULE Spec2Model ----------------------------
(***************************************************************************)
(* Model of scrape_city_infobox.py: the pipeline fetch -> parse -> select  *)
(* -> print of main, with parse_infobox and select_interesting_fields      *)
(* computed on texts represented as sequences of one-character strings.    *)
(***************************************************************************)
EXTENDS Integers, Sequences, FiniteSets, TLC

VARIABLES
    argv,          \* sys.argv[1:]
    pc,            \* where main is
    city_name,     \* main's city_name
    getCount,      \* calls of requests.get so far
    fetchArgs,     \* the arguments fetch_city_page_html was called with
    fetchResult,   \* how the fetch ended, "none" before it
    resolved_url,  \* response.url, as the path of the request
    page_title,    \* parse_infobox's page_title
    tableMatches,  \* whether a table of the page matches an infobox pattern
    infobox,       \* parse_infobox's infobox: None or the table found
    rows,          \* the rows of infobox scanned so far
    geo,           \* parse_infobox's geo
    info,          \* parse_infobox's info, then main's info_map
    parseCalls,    \* calls of parse_infobox
    selectCalls,   \* calls of select_interesting_fields
    selected,      \* main's interesting
    output,        \* the lines printed
    exitStatus     \* the process's exit status, None while it runs

vars == <<argv, pc, city_name, getCount, fetchArgs, fetchResult, resolved_url,
          page_title, tableMatches, infobox, rows, geo, info,
          parseCalls, selectCalls, selected, output, exitStatus>>

\* Bounds of the model.
MaxTables == 2
MaxRows == 2

\* Python's None is the empty tuple; a present object x is <<x>>.
None == <<>>
Some(x) == <<x>>

SeqsUpTo(S, n) == UNION {[1..k -> S] : k \in 0..n}

--------------------------------------------------------------------------
(* Text.  A str is a sequence of characters.                              *)

Whitespace == {" ", "\n", "\t"}

\* str.lower() on one character
LowerChar(c) ==
    CASE c = "A" -> "a" [] c = "B" -> "b" [] c = "C" -> "c" [] c = "D" -> "d"
      [] c = "E" -> "e" [] c = "F" -> "f" [] c = "G" -> "g" [] c = "H" -> "h"
      [] c = "I" -> "i" [] c = "J" -> "j" [] c = "K" -> "k" [] c = "L" -> "l"
      [] c = "M" -> "m" [] c = "N" -> "n" [] c = "O" -> "o" [] c = "P" -> "p"
      [] c = "Q" -> "q" [] c = "R" -> "r" [] c = "S" -> "s" [] c = "T" -> "t"
      [] c = "U" -> "u" [] c = "V" -> "v" [] c = "W" -> "w" [] c = "X" -> "x"
      [] c = "Y" -> "y" [] c = "Z" -> "z" [] OTHER -> c

\* a lower() that leaves the text as it is
LowerUnchanged(s) == s

\* str.lower()
Lower(s) == [i \in 1..Len(s) |-> LowerChar(s[i])]

RECURSIVE LStrip(_)
LStrip(s) == IF s # <<>> /\ Head(s) \in Whitespace THEN LStrip(Tail(s)) ELSE s

RECURSIVE RStrip(_)
RStrip(s) ==
    IF s # <<>> /\ s[Len(s)] \in Whitespace
    THEN RStrip(SubSeq(s, 1, Len(s) - 1))
    ELSE s

\* str.strip()
Strip(s) == RStrip(LStrip(s))

\* length of the leading run of non-whitespace characters of s
RECURSIVE WordLen(_)
WordLen(s) ==
    IF s = <<>> \/ Head(s) \in Whitespace THEN 0 ELSE 1 + WordLen(Tail(s))

\* str.split() with no argument: the maximal runs of non-whitespace
RECURSIVE Split(_)
Split(s) ==
    LET t == LStrip(s) IN
    IF t = <<>> THEN <<>>
    ELSE <<SubSeq(t, 1, WordLen(t))>> \o Split(SubSeq(t, WordLen(t) + 1, Len(t)))

\* sep.join(parts)
RECURSIVE Join(_, _)
Join(sep, parts) ==
    IF parts = <<>> THEN <<>>
    ELSE IF Len(parts) = 1 THEN parts[1]
    ELSE parts[1] \o sep \o Join(sep, Tail(parts))

\* str.replace(" ", "_")
ReplaceSpaces(s) == [i \in 1..Len(s) |-> IF s[i] = " " THEN "_" ELSE s[i]]

\* hint_lower in lowered
Contains(needle, hay) ==
    \E i \in 1..(Len(hay) - Len(needle) + 1) :
        SubSeq(hay, i, i + Len(needle) - 1) = needle

--------------------------------------------------------------------------
(* Document tree.  An element is the sequence of its descendant text      *)
(* nodes in document order.                                               *)

NonEmpty(s) == s # <<>>

\* Tag.get_text(separator=sep, strip=True): every text node stripped, the
\* empty ones dropped, the rest joined by sep
GetText(el, sep) ==
    Join(sep, SelectSeq([i \in 1..Len(el) |-> Strip(el[i])], NonEmpty))

\* " ".join(el.get_text(separator=" ", strip=True).split())
NormalizedText(el) == Join(<<" ">>, Split(GetText(el, <<" ">>)))

\* class_ filter of soup.find: a value of the multi-valued class attribute
\* equals the wanted string, or the whole attribute joined by spaces does
ClassMatches(cls, wanted) ==
    \/ \E i \in 1..Len(cls) : <<cls[i]>> = wanted
    \/ cls = wanted

\* soup.find("table", class_=wanted) over the page's tables in document
\* order, each given by its class attribute: the first match, or None
FindTable(tbls, wanted) ==
    IF \E i \in 1..Len(tbls) : ClassMatches(tbls[i], wanted)
    THEN Some(tbls[CHOOSE i \in 1..Len(tbls) :
                      /\ ClassMatches(tbls[i], wanted)
                      /\ \A j \in 1..(i - 1) : ~ClassMatches(tbls[j], wanted)])
    ELSE None

InfoboxPatterns ==
    << <<"infobox", "geography", "vcard">>, <<"infobox", "vcard">>, <<"infobox">> >>

\* a search that takes the first table of the page whatever its class
FindInfoboxAnyTable(tbls) == IF tbls # <<>> THEN Some(tbls[1]) ELSE None

\* find(...) or find(...) or find(...)
FindInfobox(tbls) ==
    IF FindTable(tbls, InfoboxPatterns[1]) # None THEN FindTable(tbls, InfoboxPatterns[1])
    ELSE IF FindTable(tbls, InfoboxPatterns[2]) # None THEN FindTable(tbls, InfoboxPatterns[2])
    ELSE FindTable(tbls, InfoboxPatterns[3])

\* some table of the page matches some infobox pattern
AnyTableMatches(tbls) ==
    \E i \in 1..Len(tbls) : \E p \in 1..Len(InfoboxPatterns) :
        ClassMatches(tbls[i], InfoboxPatterns[p])

--------------------------------------------------------------------------
(* dict: an insertion-ordered sequence of [k, v] with distinct keys.      *)

HasKey(d, key) == \E i \in 1..Len(d) : d[i].k = key
IndexOf(d, key) == CHOOSE i \in 1..Len(d) : d[i].k = key
Get(d, key) == d[IndexOf(d, key)].v

\* an assignment that keeps the value of an existing key
DictSetKeepFirst(d, key, value) ==
    IF HasKey(d, key) THEN d ELSE Append(d, [k |-> key, v |-> value])

\* d[key] = value: an existing key keeps its position
DictSet(d, key, value) ==
    IF HasKey(d, key)
    THEN [d EXCEPT ![IndexOf(d, key)].v = value]
    ELSE Append(d, [k |-> key, v |-> value])

\* d.setdefault(key, value)
SetDefault(d, key, value) ==
    IF HasKey(d, key) THEN d ELSE Append(d, [k |-> key, v |-> value])

CoordinatesKey == <<"C", "o", "o", "r", "d", "i", "n", "a", "t", "e", "s">>

\* body of the loop over infobox.find_all("tr")
ScanRowInto(d, row) ==
    IF row.th # None /\ row.td # None
    THEN LET label == NormalizedText(row.th[1])
             value_text == NormalizedText(row.td[1])
         IN IF label # <<>> /\ value_text # <<>>
            THEN DictSet(d, label, value_text)
            ELSE d
    ELSE d

\* a geo step that assigns info["Coordinates"] instead of setdefault
GeoIntoOverwrite(d, g) ==
    IF g # None THEN DictSet(d, CoordinatesKey, NormalizedText(g[1])) ELSE d

\* geo = soup.find(class_="geo"); info.setdefault("Coordinates", ...)
GeoInto(d, g) ==
    IF g # None THEN SetDefault(d, CoordinatesKey, NormalizedText(g[1])) ELSE d

--------------------------------------------------------------------------
(* select_interesting_fields                                              *)

desired_to_label_hints == <<
    [key |-> "Country",              hints |-> <<<<"C", "o", "u", "n", "t", "r", "y">>>>],
    [key |-> "State/Province",       hints |-> <<<<"S", "t", "a", "t", "e">>, <<"P", "r", "o", "v", "i", "n", "c", "e">>, <<"R", "e", "g", "i", "o", "n">>, <<"P", "r", "e", "f", "e", "c", "t", "u", "r", "e">>>>],
    [key |-> "County/District",      hints |-> <<<<"C", "o", "u", "n", "t", "y">>, <<"D", "i", "s", "t", "r", "i", "c", "t">>, <<"M", "u", "n", "i", "c", "i", "p", "a", "l", "i", "t", "y">>>>],
    [key |-> "Settlement type",      hints |-> <<<<"S", "e", "t", "t", "l", "e", "m", "e", "n", "t", " ", "t", "y", "p", "e">>, <<"T", "y", "p", "e">>>>],
    [key |-> "Incorporated/Founded", hints |-> <<<<"I", "n", "c", "o", "r", "p", "o", "r", "a", "t", "e", "d">>, <<"E", "s", "t", "a", "b", "l", "i", "s", "h", "e", "d">>, <<"F", "o", "u", "n", "d", "e", "d">>>>],
    [key |-> "Mayor/Leader",         hints |-> <<<<"M", "a", "y", "o", "r">>, <<"L", "e", "a", "d", "e", "r">>, <<"G", "o", "v", "e", "r", "n", "i", "n", "g", " ", "b", "o", "d", "y">>>>],
    [key |-> "Area total",           hints |-> <<<<"A", "r", "e", "a", " ", "t", "o", "t", "a", "l">>, <<"A", "r", "e", "a">>, <<"A", "r", "e", "a", " ", "T", "o", "t", "a", "l">>>>],
    [key |-> "Elevation",            hints |-> <<<<"E", "l", "e", "v", "a", "t", "i", "o", "n">>>>],
    [key |-> "Population",           hints |-> <<<<"P", "o", "p", "u", "l", "a", "t", "i", "o", "n">>, <<"P", "o", "p", "u", "l", "a", "t", "i", "o", "n", " ", "T", "o", "t", "a", "l">>, <<"P", "o", "p", "u", "l", "a", "t", "i", "o", "n", " ", "(">>>>],
    [key |-> "Demonym",              hints |-> <<<<"D", "e", "m", "o", "n", "y", "m">>>>],
    [key |-> "Time zone",            hints |-> <<<<"T", "i", "m", "e", " ", "z", "o", "n", "e">>, <<"T", "i", "m", "e", "z", "o", "n", "e">>>>],
    [key |-> "Postal code",          hints |-> <<<<"P", "o", "s", "t", "a", "l", " ", "c", "o", "d", "e">>, <<"P", "o", "s", "t", "c", "o", "d", "e">>, <<"Z", "I", "P", " ", "c", "o", "d", "e", "s">>>>],
    [key |-> "FIPS/GNIS",            hints |-> <<<<"F", "I", "P", "S", " ", "c", "o", "d", "e">>, <<"G", "N", "I", "S", " ", "f", "e", "a", "t", "u", "r", "e", " ", "I", "D">>>>],
    [key |-> "Coordinates",          hints |-> <<<<"C", "o", "o", "r", "d", "i", "n", "a", "t", "e", "s">>>> ] >>

\* an inner loop without its break: the last label containing the hint
LastLabelWith(lowered, hint) ==
    LET hint_lower == Lower(hint)
        hit == [i \in 1..Len(lowered) |-> Contains(hint_lower, lowered[i])]
    IN IF \E i \in 1..Len(hit) : hit[i]
       THEN CHOOSE i \in 1..Len(hit) : hit[i] /\ \A j \in (i + 1)..Len(hit) : ~hit[j]
       ELSE 0

\* inner loop over original_to_lower.items(), lowered being the lowercase
\* labels in insertion order: the position of the first label containing
\* the hint, 0 when the loop ends without a break
FirstLabelWith(lowered, hint) ==
    LET hint_lower == Lower(hint)
        hit == [i \in 1..Len(lowered) |-> Contains(hint_lower, lowered[i])]
    IN IF \E i \in 1..Len(hit) : hit[i]
       THEN CHOOSE i \in 1..Len(hit) : hit[i] /\ \A j \in 1..(i - 1) : ~hit[j]
       ELSE 0

\* loop over label_hints: found_value, None when no hint matched
RECURSIVE FindValue(_, _, _)
FindValue(d, lowered, hints) ==
    IF hints = <<>> THEN None
    ELSE LET at == FirstLabelWith(lowered, Head(hints)) IN
         IF at # 0 THEN Some(d[at].v) ELSE FindValue(d, lowered, Tail(hints))

\* loop over desired_to_label_hints.items()
RECURSIVE SelectFrom(_, _, _)
SelectFrom(d, lowered, entries) ==
    IF entries = <<>> THEN <<>>
    ELSE LET found_value == FindValue(d, lowered, Head(entries).hints) IN
         (IF found_value # None
          THEN <<[k |-> Head(entries).key, v |-> found_value[1]]>>
          ELSE <<>>) \o SelectFrom(d, lowered, Tail(entries))

\* original_to_lower, in the insertion order of info
OriginalToLower(d) == [i \in 1..Len(d) |-> Lower(d[i].k)]

select_interesting_fields(d) ==
    SelectFrom(d, OriginalToLower(d), desired_to_label_hints)

--------------------------------------------------------------------------
(* Inputs.                                                                *)

\* command-line arguments (sys.argv[1:])
ArgLists == { <<>>, <<<<>>>>, <<<<"N", "e", "w">>, <<"Y", "o", "r", "k">>>> }

\* the firstHeading element, when the page has one
TitleElements == {None, Some(<<<<"R", "o", "m", "e", " ">>>>)}

\* class attributes of the page's tables, in document order
TableClassAttrs ==
    { <<"infobox", "geography", "vcard">>, <<"infobox", "vcard">>,
      <<"infobox", "biota">>, <<"wikitable">> }
TableLists == SeqsUpTo(TableClassAttrs, MaxTables)

\* a tr of the infobox: its first th and its first td, when it has one
Row(th, td) == [th |-> th, td |-> td]

\* rows whose labels differ in how they meet the hints
LabelRowKinds ==
    { Row(Some(<<<<"L", "e", "a", "d", "e", "r">>>>),           Some(<<<<"1">>>>)),
      Row(Some(<<<<"M", "a", "y", "o", "r">>>>),            Some(<<<<"2">>>>)),
      Row(Some(<<<<"G", "o", "v", "e", "r", "n", "i", "n", "g", " ", "b", "o", "d", "y">>>>),   Some(<<<<"3">>>>)),
      Row(Some(<<<<"C", "O", "U", "N", "T", "R", "Y", " ", "/", " ", "R", "e", "g", "i", "o", "n">>>>), Some(<<<<"4">>>>)),
      Row(Some(<<<<"P", "o", "p", ".", " ", "r", "e", "g", "i", "o", "n">>>>),      Some(<<<<"5">>>>)),
      Row(Some(<<<<"Z", "o", "n", "e">>>>),             Some(<<<<"6">>>>)) }

\* rows whose cells differ in whitespace, emptiness and presence
TextRowKinds ==
    { Row(Some(<<<<"E", "l", "e", "v", "a", "t", "i", "o", "n">>>>),            Some(<<<<"1">>>>)),
      Row(Some(<<<<" ", "E", "l", "e", "v", "a", "t", "i", "o", "n">>, <<"\n">>>>),    Some(<<<<" ", "2">>, <<"\t", "m", " ">>>>)),
      Row(Some(<<<<"E", "l", "e", "v", "a", "t", "i", "o", "n">>>>),            Some(<<<<" ">>, <<"\n">>>>)),
      Row(Some(<<<<"C", "o", "o", "r", "d", "i", "n", "a", "t", "e", "s">>>>),          Some(<<<<"3">>>>)),
      Row(Some(<<<<"C", "o", "o", "r", "d", "i", "n", "a", "t", "e", "s", " ", "(", "c", "e", "n", "t", "r", "e", ")">>>>), Some(<<<<"4">>>>)),
      Row(Some(<<<<" ">>>>),                    Some(<<<<"1">>>>)),
      Row(None,                              Some(<<<<"1">>>>)),
      Row(Some(<<<<"E", "l", "e", "v", "a", "t", "i", "o", "n">>>>),            None) }

\* the first element with class "geo", when the page has one
GeoElements == {None, Some(<<<<" ">>>>), Some(<<<<"5">>, <<" ", "6">>>>)}

FetchOutcomes == {"ok", "HTTPError", "RequestException"}

Line(kind, key, text) == [kind |-> kind, key |-> key, text |-> text]

--------------------------------------------------------------------------
(* main                                                                   *)

Init ==
    /\ argv \in ArgLists
    /\ pc = "start"
    /\ city_name = <<>>
    /\ getCount = 0
    /\ fetchArgs = <<>>
    /\ fetchResult = "none"
    /\ resolved_url = <<>>
    /\ page_title = None
    /\ tableMatches = FALSE
    /\ infobox = None
    /\ rows = <<>>
    /\ geo = None
    /\ info = <<>>
    /\ parseCalls = 0
    /\ selectCalls = 0
    /\ selected = <<>>
    /\ output = <<>>
    /\ exitStatus = None

\* print(line); sys.exit(status)
PrintAndExit(line, status) ==
    /\ output' = Append(output, line)
    /\ exitStatus' = Some(status)
    /\ pc' = "exited"

\* lines 108-112
\* a usage check that wants two arguments
MissingArgumentOffByOne(args) == Len(args) < 2

\* len(sys.argv) < 2
MissingArgument(args) == Len(args) < 1

CheckArgs ==
    /\ pc = "start"
    /\ IF MissingArgument(argv)
       THEN /\ PrintAndExit(Line("usage", "", <<>>), 1)
            /\ UNCHANGED city_name
       ELSE /\ city_name' = Join(<<" ">>, argv)
            /\ pc' = "fetch"
            /\ UNCHANGED <<output, exitStatus>>
    /\ UNCHANGED <<argv, getCount, fetchArgs, fetchResult, resolved_url, page_title,
                   tableMatches, infobox, rows, geo, info, parseCalls, selectCalls,
                   selected>>

\* except clauses in the other order: every failure caught as the first
DiagnosticSwapped(exception) ==
    IF exception = "RequestException" THEN "HTTP error" ELSE "Network error"

\* the except clauses of lines 115-120: the line printed for an exception
Diagnostic(exception) ==
    IF exception = "HTTPError" THEN "HTTP error" ELSE "Network error"

\* lines 113-120 with fetch_city_page_html (16-26): one requests.get, which
\* raises, or whose response raise_for_status rejects, or which succeeds
Fetch ==
    /\ pc = "fetch"
    /\ fetchArgs' = Append(fetchArgs, city_name)
    /\ getCount' = getCount + 1
    /\ \E outcome \in FetchOutcomes :
         /\ fetchResult' = outcome
         /\ CASE outcome = "ok" ->
                   /\ resolved_url' = <<"/", "w", "i", "k", "i", "/">> \o ReplaceSpaces(city_name)
                   /\ pc' = "parse"
                   /\ UNCHANGED <<output, exitStatus>>
              [] outcome \in {"HTTPError", "RequestException"} ->
                   /\ PrintAndExit(Line(Diagnostic(outcome), "", <<>>), 2)
                   /\ UNCHANGED resolved_url
    /\ UNCHANGED <<argv, city_name, page_title, tableMatches, infobox, rows, geo,
                   info, parseCalls, selectCalls, selected>>

\* parse_infobox, lines 34-48: the title and the infobox table
ParseStart ==
    /\ pc = "parse"
    /\ parseCalls' = parseCalls + 1
    /\ \E t \in TitleElements :
         page_title' = IF t # None THEN Some(GetText(t[1], <<>>)) ELSE None
    /\ \E tbls \in TableLists :
         /\ tableMatches' = AnyTableMatches(tbls)
         /\ infobox' = FindInfobox(tbls)
    /\ pc' = IF infobox' # None THEN "rows" ELSE "geo"
    /\ info' = <<>>
    /\ UNCHANGED <<argv, city_name, getCount, fetchArgs, fetchResult, resolved_url,
                   rows, geo, selectCalls, selected, output, exitStatus>>

\* parse_infobox, lines 49-56: one turn of the loop over the rows of the
\* infobox, the row being one of kinds
ScanRowOf(kinds) ==
    /\ pc = "rows"
    /\ Len(rows) < MaxRows
    /\ \E row \in kinds :
         /\ rows' = Append(rows, row)
         /\ info' = ScanRowInto(info, row)
    /\ UNCHANGED <<argv, pc, city_name, getCount, fetchArgs, fetchResult,
                   resolved_url, page_title, tableMatches, infobox, geo, parseCalls,
                   selectCalls, selected, output, exitStatus>>

ScanRow == ScanRowOf(LabelRowKinds)

ScanTextRow == ScanRowOf(TextRowKinds)

\* parse_infobox, lines 58-63, reached when the rows are exhausted
GeoStep ==
    /\ pc \in {"rows", "geo"}
    /\ \E g \in GeoElements :
         /\ geo' = g
         /\ info' = GeoInto(info, g)
    /\ pc' = "print"
    /\ UNCHANGED <<argv, city_name, getCount, fetchArgs, fetchResult, resolved_url,
                   page_title, tableMatches, infobox, rows, parseCalls, selectCalls,
                   selected, output, exitStatus>>

\* page_title or city_name
TitleOrCity ==
    IF page_title # None /\ page_title[1] # <<>> THEN page_title[1] ELSE city_name

\* an emptiness test that never holds
IsEmptyNever(d) == FALSE

\* not info_map
IsEmpty(d) == d = <<>>

\* lines 124-129
PrintHeader ==
    /\ pc = "print"
    /\ LET header == <<Line("Title", "", TitleOrCity), Line("Source", "", resolved_url)>> IN
       IF IsEmpty(info)
       THEN /\ output' = output \o header \o <<Line("no infobox", "", <<>>)>>
            /\ exitStatus' = Some(0)
            /\ pc' = "exited"
       ELSE /\ output' = output \o header
            /\ pc' = "select"
            /\ UNCHANGED exitStatus
    /\ UNCHANGED <<argv, city_name, getCount, fetchArgs, fetchResult, resolved_url,
                   page_title, tableMatches, infobox, rows, geo, info, parseCalls,
                   selectCalls, selected>>

\* lines 131-134
Select ==
    /\ pc = "select"
    /\ selectCalls' = selectCalls + 1
    /\ selected' = select_interesting_fields(info)
    /\ IF IsEmpty(selected')
       THEN PrintAndExit(Line("no common fields", "", <<>>), 0)
       ELSE /\ pc' = "fields"
            /\ UNCHANGED <<output, exitStatus>>
    /\ UNCHANGED <<argv, city_name, getCount, fetchArgs, fetchResult, resolved_url,
                   page_title, tableMatches, infobox, rows, geo, info, parseCalls>>

\* lines 137-138, and the interpreter's exit status 0 at the end of main
PrintFields ==
    /\ pc = "fields"
    /\ output' = output \o [i \in 1..Len(selected) |->
                               Line("field", selected[i].k, selected[i].v)]
    /\ exitStatus' = Some(0)
    /\ pc' = "exited"
    /\ UNCHANGED <<argv, city_name, getCount, fetchArgs, fetchResult, resolved_url,
                   page_title, tableMatches, infobox, rows, geo, info, parseCalls,
                   selectCalls, selected>>

Next ==
    \/ CheckArgs
    \/ Fetch
    \/ ParseStart
    \/ ScanRow
    \/ GeoStep
    \/ PrintHeader
    \/ Select
    \/ PrintFields

Spec == Init /\ [][Next]_vars

\* main on one command line, over pages whose infobox rows are TextRowKinds
InitParse ==
    /\ Init
    /\ argv = <<<<"N", "e", "w">>, <<"Y", "o", "r", "k">>>>

NextParse ==
    \/ CheckArgs
    \/ Fetch
    \/ ParseStart
    \/ ScanTextRow
    \/ GeoStep
    \/ PrintHeader
    \/ Select
    \/ PrintFields

SpecParse == InitParse /\ [][NextParse]_vars

--------------------------------------------------------------------------
(* Properties.                                                            *)

FetchFailed == fetchResult \in {"HTTPError", "RequestException"}

HeaderLines ==
    <<Line("Title", "", TitleOrCity), Line("Source", "", resolved_url)>>

\* C1: main ends with exactly one exit status: 1 exactly when no argument
\* was given, 2 exactly when the fetch raised, 0 in every other case;
\* without an argument the usage line is the output and
\* fetch_city_page_html is never called.
C1_ExitStatus ==
    /\ (pc = "exited") <=> (exitStatus # None)
    /\ exitStatus # None =>
         /\ exitStatus[1] \in {0, 1, 2}
         /\ (exitStatus[1] = 1) <=> (Len(argv) = 0)
         /\ (exitStatus[1] = 2) <=> FetchFailed
         /\ (exitStatus[1] = 0) <=> (Len(argv) > 0 /\ fetchResult = "ok")
    /\ Len(argv) = 0 =>
         /\ getCount = 0
         /\ fetchArgs = <<>>
         /\ pc = "exited" => output = <<Line("usage", "", <<>>)>>

C1_Witness ==
    /\ pc = "exited"
    /\ Len(argv) = 0
    /\ exitStatus = Some(1)
    /\ output = <<Line("usage", "", <<>>)>>

\* C2: when the fetch fails the whole output is one diagnostic line, "HTTP
\* error" for an error status and "Network error" for any other failure,
\* one GET was made, and parse_infobox and select_interesting_fields are
\* not called; nothing is printed before the fetch has ended.
C2_FetchFailure ==
    /\ pc \in {"fetch", "parse"} => output = <<>>
    /\ getCount <= 1
    /\ FetchFailed =>
         /\ pc = "exited"
         /\ getCount = 1
         /\ parseCalls = 0
         /\ selectCalls = 0
         /\ fetchResult = "HTTPError" => output = <<Line("HTTP error", "", <<>>)>>
         /\ fetchResult = "RequestException" => output = <<Line("Network error", "", <<>>)>>

C2_Witness ==
    /\ fetchResult = "HTTPError"
    /\ pc = "exited"
    /\ output = <<Line("HTTP error", "", <<>>)>>

ParsedEmpty == pc = "exited" /\ parseCalls = 1 /\ info = <<>>

\* C3 as stated: when the parsed mapping is empty, select returns an empty
\* mapping and main prints the "no common fields" line and exits with 0.
C3_AsStated ==
    ParsedEmpty =>
        /\ select_interesting_fields(info) = <<>>
        /\ output[Len(output)].kind = "no common fields"
        /\ exitStatus = Some(0)

\* C3 amended: when the parsed mapping is empty, select returns an empty
\* mapping on it, and main, without calling select, prints the title, the
\* source and the "no infobox" line and exits with 0.
C3_EmptyMapping ==
    ParsedEmpty =>
        /\ select_interesting_fields(info) = <<>>
        /\ selectCalls = 0
        /\ output = HeaderLines \o <<Line("no infobox", "", <<>>)>>
        /\ exitStatus = Some(0)

C3_Witness ==
    /\ ParsedEmpty
    /\ output[Len(output)].kind = "no infobox"

\* C4: every value of the mapping parse_infobox returns is a non-empty
\* string, the "Coordinates" of a geo element included, and no key is empty.
C4_NoEmptyValue ==
    pc \in {"print", "select", "fields", "exited"} =>
        \A i \in 1..Len(info) : info[i].v # <<>> /\ info[i].k # <<>>

Parsed == pc \in {"print", "select", "fields", "exited"} /\ parseCalls = 1

\* C5 as stated: when no table matches an infobox pattern, parse_infobox
\* returns an empty mapping, whether or not the page has a geo element.
C5_AsStated ==
    (Parsed /\ ~tableMatches) =>
        /\ info = <<>>
        /\ select_interesting_fields(info) = <<>>

\* C5 amended: when no table matches an infobox pattern, no row is scanned;
\* without a geo element parse_infobox returns an empty mapping, on which
\* select returns an empty mapping; with one it returns the single key
\* "Coordinates" with the element's normalized text.
C5_NoInfoboxTable ==
    (Parsed /\ ~tableMatches) =>
        /\ rows = <<>>
        /\ geo = None =>
             /\ info = <<>>
             /\ select_interesting_fields(info) = <<>>
        /\ geo # None =>
             info = <<[k |-> CoordinatesKey, v |-> NormalizedText(geo[1])]>>

C5_Witness ==
    /\ Parsed
    /\ ~tableMatches
    /\ geo # None
    /\ info = <<[k |-> CoordinatesKey, v |-> <<"5", " ", "6">>]>>

\* a row the scan inserts: header and data cell present, both non-empty
\* after normalization
Qualifying(row) ==
    /\ row.th # None
    /\ row.td # None
    /\ NormalizedText(row.th[1]) # <<>>
    /\ NormalizedText(row.td[1]) # <<>>

SameLabel(r1, r2) == NormalizedText(r1.th[1]) = NormalizedText(r2.th[1])

\* C6: for every label, the mapping holds the value of the last qualifying
\* row with that label; a later row with that label whose value is empty
\* does not erase it.
C6_LastRowWins ==
    \A i \in 1..Len(rows) :
        (/\ Qualifying(rows[i])
         /\ \A j \in (i + 1)..Len(rows) :
                ~(Qualifying(rows[j]) /\ SameLabel(rows[i], rows[j])))
        => /\ HasKey(info, NormalizedText(rows[i].th[1]))
           /\ Get(info, NormalizedText(rows[i].th[1])) = NormalizedText(rows[i].td[1])

C6_Witness ==
    /\ Len(rows) = 2
    /\ Qualifying(rows[1])
    /\ Qualifying(rows[2])
    /\ SameLabel(rows[1], rows[2])
    /\ rows[1].td # rows[2].td
    /\ Get(info, <<"E", "l", "e", "v", "a", "t", "i", "o", "n">>) = <<"2", " ", "m">>

\* C7: the geo step stores the element's text under "Coordinates" only
\* when the table scan left no entry under exactly that key, and changes
\* nothing else of the mapping.
C7_GeoFrame ==
    [][(pc \in {"rows", "geo"} /\ pc' = "print") =>
          /\ HasKey(info, CoordinatesKey) => info' = info
          /\ geo' = None => info' = info
          /\ (~HasKey(info, CoordinatesKey) /\ geo' # None) =>
                info' = info \o <<[k |-> CoordinatesKey, v |-> NormalizedText(geo'[1])]>>
      ]_vars

\* a label containing "Coordinates" did not block the geo insertion
C7_Witness ==
    /\ pc = "print"
    /\ Len(info) = 2
    /\ info[1].k = <<"C", "o", "o", "r", "d", "i", "n", "a", "t", "e", "s", " ", "(", "c", "e", "n", "t", "r", "e", ")">>
    /\ info[2] = [k |-> CoordinatesKey, v |-> <<"5", " ", "6">>]

CaseInsensitiveSubstring(hint, label) ==
    \E at \in 0..(Len(label) - Len(hint)) :
        \A j \in 1..Len(hint) : LowerChar(hint[j]) = LowerChar(label[at + j])

\* the hints of canonical entry e that some label of d contains
MatchingHints(d, e) ==
    {h \in 1..Len(desired_to_label_hints[e].hints) :
        \E l \in 1..Len(d) :
            CaseInsensitiveSubstring(desired_to_label_hints[e].hints[h], d[l].k)}

CanonicalIndex(key) ==
    CHOOSE e \in 1..Len(desired_to_label_hints) : desired_to_label_hints[e].key = key

Min(S) == CHOOSE x \in S : \A y \in S : x <= y

Selecting == selectCalls = 1

\* C8: the keys select returns are canonical output keys, a canonical key
\* is present exactly when one of its hints is a case-insensitive substring
\* of a label, the keys are in canonical order, and main prints them in
\* that order as key and value.
C8_SelectedKeys ==
    Selecting =>
        /\ \A i \in 1..Len(selected) :
               \E e \in 1..Len(desired_to_label_hints) :
                   selected[i].k = desired_to_label_hints[e].key
        /\ \A e \in 1..Len(desired_to_label_hints) :
               HasKey(selected, desired_to_label_hints[e].key)
                   <=> MatchingHints(info, e) # {}
        /\ \A i, j \in 1..Len(selected) :
               i < j => CanonicalIndex(selected[i].k) < CanonicalIndex(selected[j].k)
        /\ (pc = "exited" /\ selected # <<>>) =>
               output = HeaderLines \o
                   [i \in 1..Len(selected) |-> Line("field", selected[i].k, selected[i].v)]

\* labels in another order than the canonical one, and an empty value
C8_Witness ==
    /\ pc = "exited"
    /\ Len(info) = 3
    /\ info[1].k = <<"L", "e", "a", "d", "e", "r">>
    /\ info[2].k = <<"C", "O", "U", "N", "T", "R", "Y", " ", "/", " ", "R", "e", "g", "i", "o", "n">>
    /\ info[3] = [k |-> CoordinatesKey, v |-> <<>>]
    /\ Len(selected) = 4
    /\ selected[1].k = "Country"
    /\ output[Len(output)] = Line("field", "Coordinates", <<>>)

\* C9: the place name main passes to fetch_city_page_html is not empty.
C9_NonEmptyPlaceName ==
    \A i \in 1..Len(fetchArgs) : fetchArgs[i] # <<>>

\* C10: for each canonical entry the selected value is the value of the
\* first label, in insertion order, that contains the earliest hint some
\* label contains, whatever the other entries selected.
C10_FirstHintFirstLabel ==
    Selecting =>
        \A e \in 1..Len(desired_to_label_hints) :
            MatchingHints(info, e) # {} =>
                LET hint == desired_to_label_hints[e].hints[Min(MatchingHints(info, e))]
                    first == Min({l \in 1..Len(info) :
                                     CaseInsensitiveSubstring(hint, info[l].k)})
                IN /\ HasKey(selected, desired_to_label_hints[e].key)
                   /\ Get(selected, desired_to_label_hints[e].key) = info[first].v

\* "Leader" was inserted before "Mayor", and the value of "Mayor" is selected
C10_Witness ==
    /\ Selecting
    /\ Len(info) = 2
    /\ info[1] = [k |-> <<"L", "e", "a", "d", "e", "r">>, v |-> <<"1">>]
    /\ info[2] = [k |-> <<"M", "a", "y", "o", "r">>, v |-> <<"2">>]
    /\ selected = <<[k |-> "Mayor/Leader", v |-> <<"2">>]>>

==========================================================================
